---- MODULE Spec2Model ----
(***************************************************************************)
(* A model of data_formulator's DuckDBManager (db_manager.py) and          *)
(* PostgreSQLDataLoader (data_loader/postgresql_data_loader.py).           *)
(*                                                                         *)
(* Three specifications share the module:                                  *)
(*   SpecMgr   one DuckDBManager used sequentially: get_connection, the    *)
(*             scoped connection() block, and an environment that changes  *)
(*             the configured directory between calls;                     *)
(*   SpecRace  threads inside get_connection at the same time, one step    *)
(*             per statement that touches the map or the file system;      *)
(*   SpecPg    PostgreSQLDataLoader on one engine connection.              *)
(* Strings the code formats are sequences of tokens, so that formatting,   *)
(* masking and splitting are computed and not assumed.                     *)
(***************************************************************************)
EXTENDS Integers, Sequences, FiniteSets, TLC

VARIABLES
    \* ---- DuckDBManager (SpecMgr)
    local_db_dir,   \* self._local_db_dir: a directory or NoDir (None)
    db_files,       \* self._db_files: session id -> recorded path or NoPath
    fs,             \* the directories the manager probes
    conns,          \* the connections get_connection returned, in order
    nCalls,         \* get_connection calls made so far
    lastCall,       \* what the last get_connection call saw and did
    regCount,       \* history: unknown -> known transitions per session
    firstPath,      \* history: the path recorded by the first registration
    ctxPc,          \* the scoped block: "idle", "body", "exited", "failed"
    ctxConn,        \* index in conns of the connection the block yielded
    ctxCloses,      \* close() calls connection() made on that connection
    ctxExit,        \* how the block was left
    \* ---- threads in get_connection (SpecRace)
    rMap,           \* self._db_files for the contended session
    rFs,            \* the file system the threads share
    rDir,           \* self._local_db_dir
    tpc,            \* thread -> statement it is about to run
    tdir,           \* thread -> its local db_dir
    tfile,          \* thread -> its local db_file
    \* ---- PostgreSQLDataLoader (SpecPg)
    attached,       \* catalogs attached to the connection: {[alias, url]}
    defaultDb,      \* the connection's default database (USE)
    mainTables,     \* local tables of the main catalog: name -> rows
    logged,         \* strings the last operation passed to the logger
    last            \* what the last loader operation saw and did

mgrVars  == <<local_db_dir, db_files, fs, conns, nCalls, lastCall, regCount,
              firstPath, ctxPc, ctxConn, ctxCloses, ctxExit>>
raceVars == <<rMap, rFs, rDir, tpc, tdir, tfile>>
pgVars   == <<attached, defaultDb, mainTables, logged, last>>
vars     == <<mgrVars, raceVars, pgVars>>

\* ---- bounds of the model
MaxCalls == 2       \* get_connection calls in one behaviour
MaxRows  == 2       \* rows of a source table
MaxSize  == 3       \* largest size argument of ingest_data

\* session ids are caller-defined strings, here sequences of pieces: a piece
\* is a run of characters without "/", or "/"; the third id holds separators
Sessions      == {<<"s1">>, <<"s2">>, <<"x", "/", "..", "/", "df_", "s1">>}
NoSid         == <<>>
ConfiguredDir == "/data/df"      \* LOCAL_DB_DIR, already absolute and resolved
TempDir       == "/tmp"          \* tempfile.gettempdir()
NoDir         == "None"
Dirs          == {ConfiguredDir, TempDir}
NoPath        == [dir |-> NoDir, file |-> <<>>]

Min(a, b) == IF a < b THEN a ELSE b

(***************************************************************************)
(* The file system as the probe of lines 56-61 sees it.  For a directory   *)
(* d: exists[d]; creatable[d], whether os.makedirs can create it;          *)
(* writable[d], whether entries can be created and removed in it;          *)
(* testFile[d], whether d/.write_test exists.                              *)
(***************************************************************************)
FsStates ==
    [exists : [Dirs -> BOOLEAN], creatable : [Dirs -> BOOLEAN],
     writable : [Dirs -> BOOLEAN], testFile : [Dirs -> BOOLEAN]]

\* os.makedirs(db_dir, exist_ok=True)
MakeDirs(f, d) ==
    IF f.exists[d] THEN [ok |-> TRUE, fs |-> f]
    ELSE IF f.creatable[d]
         THEN [ok |-> TRUE, fs |-> [f EXCEPT !.exists[d] = TRUE]]
         ELSE [ok |-> FALSE, fs |-> f]

\* test_file.touch(): creates the file, or opens the one already there
Touch(f, d) ==
    IF f.exists[d] /\ (f.writable[d] \/ f.testFile[d])
    THEN [ok |-> TRUE, fs |-> [f EXCEPT !.testFile[d] = TRUE]]
    ELSE [ok |-> FALSE, fs |-> f]

\* test_file.unlink(): FileNotFoundError when the file is gone
Unlink(f, d) ==
    IF f.exists[d] /\ f.writable[d] /\ f.testFile[d]
    THEN [ok |-> TRUE, fs |-> [f EXCEPT !.testFile[d] = FALSE]]
    ELSE [ok |-> FALSE, fs |-> f]

\* the components of a path string: the runs of pieces between "/"
RECURSIVE Components(_)
Components(name) ==
    IF name = <<>> THEN << <<>> >>
    ELSE LET rest == Components(Tail(name)) IN
         IF Head(name) = "/" THEN << <<>> >> \o rest
         ELSE << <<Head(name)>> \o Head(rest) >> \o Tail(rest)

\* ".." removes the component before it, "" and "." are dropped
RECURSIVE Collapse(_, _)
Collapse(comps, stack) ==
    IF comps = <<>> THEN stack
    ELSE LET c == Head(comps) IN
         IF c = <<>> \/ c = <<".">> THEN Collapse(Tail(comps), stack)
         ELSE IF c = <<"..">> /\ stack # <<>> /\ stack[Len(stack)] # <<"..">>
         THEN Collapse(Tail(comps), SubSeq(stack, 1, Len(stack) - 1))
         ELSE Collapse(Tail(comps), Append(stack, c))

RECURSIVE Join(_)
Join(comps) ==
    IF comps = <<>> THEN <<>>
    ELSE IF Len(comps) = 1 THEN comps[1]
    ELSE comps[1] \o <<"/">> \o Join(Tail(comps))

\* Path.resolve() of name under the directory d, which is resolved already
\* and holds no symbolic link
ResolvePath(d, name) ==
    [dir |-> d, file |-> Join(Collapse(Components(name), <<>>))]

\* str((Path(db_dir) / f"df_{session_id}.duckdb").resolve()), lines 67-68
DbFile(d, sid) == ResolvePath(d, <<"df_">> \o sid \o <<".duckdb">>)

\* db_dir = self._local_db_dir if self._local_db_dir else tempfile.gettempdir()
StartDir(configured) == IF configured # NoDir THEN configured ELSE TempDir

\* the try block of lines 56-61: the step that raised, or "none"
ProbeDir(f, d) ==
    LET m == MakeDirs(f, d) IN
    IF ~m.ok THEN [error |-> "makedirs", fs |-> m.fs]
    ELSE LET t == Touch(m.fs, d) IN
         IF ~t.ok THEN [error |-> "touch", fs |-> t.fs]
         ELSE LET u == Unlink(t.fs, d) IN
              IF ~u.ok THEN [error |-> "unlink", fs |-> u.fs]
              ELSE [error |-> "none", fs |-> u.fs]

\* a faulty variant: the map is not consulted, the path is computed on every call
ResolveSessionNoMap(files, f, configured, sid) ==
    LET d0 == StartDir(configured)
        p  == ProbeDir(f, d0)
        d  == IF p.error = "none" THEN d0 ELSE TempDir
    IN  [files |-> [files EXCEPT ![sid] = DbFile(d, sid)], fs |-> p.fs,
         db_file |-> DbFile(d, sid), first |-> files[sid] = NoPath,
         probeError |-> p.error, raised |-> "none"]

\* a faulty variant: no except clause, the probe's error leaves get_connection
ResolveSessionNoExcept(files, f, configured, sid) ==
    IF files[sid] = NoPath
    THEN LET d0 == StartDir(configured)
             p  == ProbeDir(f, d0)
         IN  IF p.error = "none"
             THEN [files |-> [files EXCEPT ![sid] = DbFile(d0, sid)],
                   fs |-> p.fs, db_file |-> DbFile(d0, sid), first |-> TRUE,
                   probeError |-> "none", raised |-> "none"]
             ELSE [files |-> files, fs |-> p.fs, db_file |-> NoPath,
                   first |-> TRUE, probeError |-> p.error,
                   raised |-> "OSError"]
    ELSE [files |-> files, fs |-> f, db_file |-> files[sid],
          first |-> FALSE, probeError |-> "none", raised |-> "none"]

\* get_connection, lines 51-73: the session's db file, recorded on first use
ResolveSession(files, f, configured, sid) ==
    IF files[sid] = NoPath
    THEN LET d0 == StartDir(configured)
             p  == ProbeDir(f, d0)
             d  == IF p.error = "none" THEN d0 ELSE TempDir
         IN  [files |-> [files EXCEPT ![sid] = DbFile(d, sid)], fs |-> p.fs,
              db_file |-> DbFile(d, sid), first |-> TRUE,
              probeError |-> p.error, raised |-> "none"]
    ELSE [files |-> files, fs |-> f, db_file |-> files[sid],
          first |-> FALSE, probeError |-> "none", raised |-> "none"]

NoCall ==
    [sid |-> NoSid, first |-> FALSE, pre |-> [exists |-> TRUE,
     creatable |-> TRUE, writable |-> TRUE], probeError |-> "none",
     raised |-> "none", connectTried |-> FALSE, conn |-> 0]

(***************************************************************************)
(* get_connection(session_id), lines 47-80, as one call.  connectOk is     *)
(* the engine's answer to duckdb.connect(database=db_file); its exception  *)
(* is printed and re-raised (lines 78-80).                                 *)
(***************************************************************************)
DoGetConnection(sid, connectOk) ==
    LET r    == ResolveSession(db_files, fs, local_db_dir, sid)
        d0   == StartDir(local_db_dir)
        tried == r.raised = "none"
        got  == tried /\ connectOk
    IN  /\ nCalls < MaxCalls
        /\ nCalls' = nCalls + 1
        /\ db_files' = r.files
        /\ fs' = r.fs
        /\ conns' = IF got
                    THEN Append(conns, [sid |-> sid, path |-> r.db_file,
                                        open |-> TRUE])
                    ELSE conns
        /\ regCount' = IF db_files[sid] = NoPath /\ r.files[sid] # NoPath
                       THEN [regCount EXCEPT ![sid] = @ + 1] ELSE regCount
        /\ firstPath' = IF regCount[sid] = 0 /\ r.files[sid] # NoPath
                        THEN [firstPath EXCEPT ![sid] = r.files[sid]]
                        ELSE firstPath
        /\ lastCall' =
             [sid |-> sid, first |-> r.first,
              pre |-> [exists |-> fs.exists[d0], creatable |-> fs.creatable[d0],
                       writable |-> fs.writable[d0]],
              probeError |-> r.probeError,
              raised |-> IF r.raised # "none" THEN r.raised
                         ELSE IF connectOk THEN "none" ELSE "connect",
              connectTried |-> tried,
              conn |-> IF got THEN Len(conns) + 1 ELSE 0]

\* a direct call of get_connection
GetConnection ==
    /\ ctxPc # "body"
    /\ \E sid \in Sessions, connectOk \in BOOLEAN : DoGetConnection(sid, connectOk)
    /\ UNCHANGED <<local_db_dir, ctxPc, ctxConn, ctxCloses, ctxExit>>
    /\ UNCHANGED <<raceVars, pgVars>>

\* connection(session_id), lines 39-42: up to the yield.  When get_connection
\* raises, conn is None, the finally clause closes nothing and the caller's
\* block never runs.
ConnectionEnter ==
    /\ ctxPc # "body"
    /\ \E sid \in Sessions, connectOk \in BOOLEAN :
          /\ DoGetConnection(sid, connectOk)
          /\ ctxPc' = IF lastCall'.conn # 0 THEN "body" ELSE "failed"
          /\ ctxConn' = lastCall'.conn
    /\ ctxCloses' = 0
    /\ ctxExit' = "none"
    /\ UNCHANGED local_db_dir
    /\ UNCHANGED <<raceVars, pgVars>>

\* the caller's block: it may close the yielded connection itself
BodyClose ==
    /\ ctxPc = "body"
    /\ conns[ctxConn].open
    /\ conns' = [conns EXCEPT ![ctxConn].open = FALSE]
    /\ UNCHANGED <<local_db_dir, db_files, fs, nCalls, lastCall, regCount,
                   firstPath, ctxPc, ctxConn, ctxCloses, ctxExit>>
    /\ UNCHANGED <<raceVars, pgVars>>

ExitPaths == {"return", "exception", "cancel"}

\* a faulty variant: close after the yield, with no finally clause
ConnectionExitNoFinally(how) ==
    /\ ctxPc = "body"
    /\ ctxPc' = "exited"
    /\ ctxExit' = how
    /\ ctxCloses' = IF how = "return" THEN ctxCloses + 1 ELSE ctxCloses
    /\ conns' = IF how = "return"
                THEN [conns EXCEPT ![ctxConn].open = FALSE] ELSE conns
    /\ UNCHANGED <<local_db_dir, db_files, fs, nCalls, lastCall, regCount,
                   firstPath, ctxConn>>
    /\ UNCHANGED <<raceVars, pgVars>>

\* connection(session_id), lines 43-45: the block is left by how (it
\* returns, raises, or the generator is closed) and the finally clause runs
ConnectionExit(how) ==
    /\ ctxPc = "body"
    /\ ctxPc' = "exited"
    /\ ctxExit' = how
    /\ ctxCloses' = IF ctxConn # 0 THEN ctxCloses + 1 ELSE ctxCloses
    /\ conns' = IF ctxConn # 0
                THEN [conns EXCEPT ![ctxConn].open = FALSE] ELSE conns
    /\ UNCHANGED <<local_db_dir, db_files, fs, nCalls, lastCall, regCount,
                   firstPath, ctxConn>>
    /\ UNCHANGED <<raceVars, pgVars>>

BodyExit == \E how \in ExitPaths : ConnectionExit(how)

\* the environment, between calls: the configured directory is removed,
\* loses or regains write permission
EnvChange ==
    /\ local_db_dir # NoDir
    /\ \E e \in BOOLEAN, w \in BOOLEAN :
          /\ <<e, w>> # <<fs.exists[ConfiguredDir], fs.writable[ConfiguredDir]>>
          /\ fs' = [fs EXCEPT !.exists[ConfiguredDir] = e,
                              !.writable[ConfiguredDir] = w,
                              !.testFile[ConfiguredDir] = e /\ @]
    /\ UNCHANGED <<local_db_dir, db_files, conns, nCalls, lastCall, regCount,
                   firstPath, ctxPc, ctxConn, ctxCloses, ctxExit>>
    /\ UNCHANGED <<raceVars, pgVars>>

\* the parts of the module a specification does not use stay as they are
IdleRace ==
    /\ rMap = NoPath
    /\ rFs = [exists |-> [d \in Dirs |-> TRUE], creatable |-> [d \in Dirs |-> TRUE],
              writable |-> [d \in Dirs |-> TRUE], testFile |-> [d \in Dirs |-> FALSE]]
    /\ rDir = NoDir
    /\ tpc = <<>>
    /\ tdir = <<>>
    /\ tfile = <<>>

IdlePg ==
    /\ attached = {}
    /\ defaultDb = "none"
    /\ mainTables = <<>>
    /\ logged = {}
    /\ last = <<>>

\* DuckDBManager.__init__, lines 15-31, and the file system it starts in
InitFs ==
    {f \in FsStates :
        /\ f.exists[TempDir] /\ f.writable[TempDir] /\ f.creatable[TempDir]
        /\ ~f.testFile[TempDir]
        /\ f.testFile[ConfiguredDir] => f.exists[ConfiguredDir]}

InitMgr ==
    /\ local_db_dir \in {ConfiguredDir, NoDir}
    /\ db_files = [s \in Sessions |-> NoPath]
    /\ fs \in InitFs
    /\ conns = <<>>
    /\ nCalls = 0
    /\ lastCall = NoCall
    /\ regCount = [s \in Sessions |-> 0]
    /\ firstPath = [s \in Sessions |-> NoPath]
    /\ ctxPc = "idle"
    /\ ctxConn = 0
    /\ ctxCloses = 0
    /\ ctxExit = "none"
    /\ IdleRace
    /\ IdlePg

IdleMgr ==
    /\ local_db_dir = NoDir
    /\ db_files = [s \in Sessions |-> NoPath]
    /\ fs = [exists |-> [d \in Dirs |-> TRUE], creatable |-> [d \in Dirs |-> TRUE],
             writable |-> [d \in Dirs |-> TRUE], testFile |-> [d \in Dirs |-> FALSE]]
    /\ conns = <<>>
    /\ nCalls = 0
    /\ lastCall = NoCall
    /\ regCount = [s \in Sessions |-> 0]
    /\ firstPath = [s \in Sessions |-> NoPath]
    /\ ctxPc = "idle"
    /\ ctxConn = 0
    /\ ctxCloses = 0
    /\ ctxExit = "none"

NextMgr ==
    \/ GetConnection
    \/ ConnectionEnter
    \/ BodyClose
    \/ BodyExit
    \/ EnvChange

SpecMgr == InitMgr /\ [][NextMgr]_vars

(***************************************************************************)
(* Claims about DuckDBManager, checked under SpecMgr.                      *)
(***************************************************************************)

\* C1: when the scoped block of connection(session_id) has been left, by a
\* return, an exception or the generator's close, connection() has called
\* close() on the connection it yielded exactly once and the connection is
\* closed, whatever the caller did with it; while the block runs,
\* connection() has not closed it.
C1_ClosedExactlyOnce ==
    /\ ctxPc = "exited" => ctxCloses = 1 /\ ~conns[ctxConn].open
    /\ ctxPc = "body" => ctxCloses = 0

\* a block left by an exception, its connection closed
C1_Witness ==
    ctxPc = "exited" /\ ctxExit = "exception" /\ ~conns[ctxConn].open

\* C2: a session becomes known exactly once, on its first get_connection
\* call; its recorded path never changes afterwards, and every connection
\* returned for it is opened on that path, also when the configured
\* directory changes between the calls.
C2_OnePathPerSession ==
    \A s \in Sessions :
        /\ regCount[s] <= 1
        /\ (regCount[s] = 1) <=> (db_files[s] # NoPath)
        /\ lastCall.sid = s => db_files[s] # NoPath
        /\ db_files[s] # NoPath => db_files[s] = firstPath[s]
        /\ \A i \in 1..Len(conns) :
              conns[i].sid = s => conns[i].path = firstPath[s]

\* two connections of one session on a path under the configured directory,
\* the second one opened after that directory was removed
C2_Witness ==
    /\ Len(conns) = 2
    /\ conns[1].sid = conns[2].sid
    /\ conns[1].path.dir = ConfiguredDir
    /\ ~lastCall.pre.exists
    /\ lastCall.conn = 2

\* C9: two distinct session ids never have the same recorded path.
C9_SessionsIsolated ==
    \A s, t \in Sessions :
        (s # t /\ db_files[s] # NoPath /\ db_files[t] # NoPath)
            => db_files[s] # db_files[t]

\* C3: a first call that finds the configured directory missing or
\* unwritable raises no error of makedirs, touch or unlink; it records
\* df_<session_id>.duckdb under the configured directory when os.makedirs
\* could create it writable and under the temp directory otherwise, and goes
\* on to duckdb.connect.
C3_FallbackNeverFails ==
    (/\ lastCall.sid # NoSid
     /\ lastCall.first
     /\ local_db_dir # NoDir
     /\ ~lastCall.pre.exists \/ ~lastCall.pre.writable)
    => LET usable == (lastCall.pre.exists \/ lastCall.pre.creatable)
                     /\ lastCall.pre.writable
           chosen == IF usable THEN ConfiguredDir ELSE TempDir
           want   == ResolvePath(chosen,
                                 <<"df_">> \o lastCall.sid \o <<".duckdb">>)
       IN  /\ lastCall.raised \in {"none", "connect"}
           /\ lastCall.connectTried
           /\ db_files[lastCall.sid] = want
           /\ lastCall.conn # 0 => conns[lastCall.conn].path = want

\* a first call with the configured directory missing and not creatable,
\* which returned a connection on the temp directory
C3_Witness ==
    /\ lastCall.first
    /\ local_db_dir = ConfiguredDir
    /\ ~lastCall.pre.exists /\ ~lastCall.pre.creatable
    /\ lastCall.probeError = "makedirs"
    /\ lastCall.conn # 0
    /\ conns[lastCall.conn].path.dir = TempDir

(***************************************************************************)
(* SpecRace: threads make the first get_connection call for one session    *)
(* at the same time.  A thread runs lines 51-77 one statement at a time;   *)
(* nothing in the code orders the statements of different threads.         *)
(***************************************************************************)
Threads == {"t1", "t2"}
RaceSession == <<"s1">>

\* line 51: if session_id not in self._db_files ...; lines 72-73 otherwise
TCheck(t) ==
    /\ tpc[t] = "check"
    /\ IF rMap = NoPath
       THEN /\ tpc' = [tpc EXCEPT ![t] = "makedirs"]
            /\ tdir' = [tdir EXCEPT ![t] = StartDir(rDir)]
            /\ tfile' = tfile
       ELSE /\ tpc' = [tpc EXCEPT ![t] = "connect"]
            /\ tfile' = [tfile EXCEPT ![t] = rMap]
            /\ tdir' = tdir
    /\ UNCHANGED <<rMap, rFs, rDir>>
    /\ UNCHANGED <<mgrVars, pgVars>>

\* a probe statement: on an OSError the handler of lines 62-64 sets db_dir
\* to the temp directory and the thread goes on to line 67
TProbe(t, stmt, res, next) ==
    /\ tpc[t] = stmt
    /\ rFs' = res.fs
    /\ IF res.ok
       THEN tpc' = [tpc EXCEPT ![t] = next] /\ tdir' = tdir
       ELSE /\ tpc' = [tpc EXCEPT ![t] = "record"]
            /\ tdir' = [tdir EXCEPT ![t] = TempDir]
    /\ UNCHANGED <<rMap, rDir, tfile>>
    /\ UNCHANGED <<mgrVars, pgVars>>

\* line 57
TMakeDirs(t) == TProbe(t, "makedirs", MakeDirs(rFs, tdir[t]), "touch")
\* line 60
TTouch(t) == TProbe(t, "touch", Touch(rFs, tdir[t]), "unlink")
\* line 61
TUnlink(t) == TProbe(t, "unlink", Unlink(rFs, tdir[t]), "record")

\* lines 67-70: the path is computed and written to the map
TRecord(t) ==
    /\ tpc[t] = "record"
    /\ tfile' = [tfile EXCEPT ![t] = DbFile(tdir[t], RaceSession)]
    /\ rMap' = DbFile(tdir[t], RaceSession)
    /\ tpc' = [tpc EXCEPT ![t] = "connect"]
    /\ UNCHANGED <<rFs, rDir, tdir>>
    /\ UNCHANGED <<mgrVars, pgVars>>

\* lines 76-77: the connection on db_file is returned
TConnect(t) ==
    /\ tpc[t] = "connect"
    /\ tpc' = [tpc EXCEPT ![t] = "done"]
    /\ UNCHANGED <<rMap, rFs, rDir, tdir, tfile>>
    /\ UNCHANGED <<mgrVars, pgVars>>

InitRace ==
    /\ rMap = NoPath
    /\ rFs \in InitFs
    /\ rDir \in {ConfiguredDir, NoDir}
    /\ tpc = [t \in Threads |-> "check"]
    /\ tdir = [t \in Threads |-> NoDir]
    /\ tfile = [t \in Threads |-> NoPath]
    /\ IdleMgr
    /\ IdlePg

NextRace ==
    \/ \E t \in Threads : TCheck(t)
    \/ \E t \in Threads : TMakeDirs(t)
    \/ \E t \in Threads : TTouch(t)
    \/ \E t \in Threads : TUnlink(t)
    \/ \E t \in Threads : TRecord(t)
    \/ \E t \in Threads : TConnect(t)

SpecRace == InitRace /\ [][NextRace]_vars

\* C8: under every interleaving, the threads that made the first call for
\* the session at the same time hold the same db_file, and it is the map's
\* entry once they have all returned.
C8_RaceBenign ==
    \A t, u \in Threads :
        /\ (tpc[t] \in {"connect", "done"} /\ tpc[u] \in {"connect", "done"})
              => tfile[t] = tfile[u]
        /\ (\A v \in Threads : tpc[v] = "done") => rMap = tfile[t]

(***************************************************************************)
(* SpecPg: PostgreSQLDataLoader on one engine connection.  The engine is   *)
(* the connection's catalog state: the attached catalogs, the default      *)
(* database and the tables of the local database.                          *)
(***************************************************************************)
PgAlias == "postgresdb"
LocalDb == "df_session"
NoErr   == [type |-> "none", msg |-> <<>>]

\* LoaderParams: string keys to string values (list_params, lines 15-21)
ParamKeys == <<"user", "password", "host", "database", "port">>
Passwords == {"", "hunter2"}
ParamSets ==
    [user : {"postgres"}, password : Passwords, host : {"localhost"},
     database : {"postgres"}, port : {"5432"}]

\* the dict comprehension of line 28, as json.dumps writes it
RECURSIVE MaskedItems(_, _)
MaskedItems(p, i) ==
    IF i > Len(ParamKeys) THEN <<>>
    ELSE <<ParamKeys[i],
           IF ParamKeys[i] # "password" THEN p[ParamKeys[i]] ELSE "***">>
         \o MaskedItems(p, i + 1)

\* line 28
ParamsLogLine(p) ==
    <<"Initializing PostgreSQL connection with params: ">> \o MaskedItems(p, 1)

\* line 48: f"postgresql://{user}:{password}@{host}:{port}/{database}"
ConnectionUrl(p) ==
    <<"postgresql://", p.user, ":", p.password, "@", p.host, ":", p.port,
      "/", p.database>>

\* line 49
UrlLogLine(p) ==
    <<"Connection URL (masked): ", "postgresql://", p.user, ":", "***", "@",
      p.host, ":", p.port, "/", p.database>>

\* line 60: f"ATTACH '{connection_url}' AS postgresdb (TYPE postgres)"
AttachQuery(url) == <<"ATTACH '">> \o url \o <<"' AS postgresdb (TYPE postgres)">>

\* str.replace(old, new) on tokens; replacing "" puts new around every token
StrReplace(str, old, new) ==
    IF old = ""
    THEN [i \in 1..(2 * Len(str) + 1) |->
             IF i % 2 = 1 THEN new ELSE str[i \div 2]]
    ELSE [i \in 1..Len(str) |-> IF str[i] = old THEN new ELSE str[i]]

\* line 61
AttachLogLine(query, password) ==
    <<"Executing attach query: ">> \o StrReplace(query, password, "***")

HasAlias(att) == \E c \in att : c.alias = PgAlias

\* the engine on "DETACH postgresdb;": an error when nothing is attached
\* under the alias, and when the alias is the default database
EngineDetach(att, def) ==
    IF ~HasAlias(att)
    THEN [ok |-> FALSE, attached |-> att,
          err |-> [type |-> "duckdb.BinderException",
                   msg |-> <<"Failed to detach database: not found">>]]
    ELSE IF def = PgAlias
    THEN [ok |-> FALSE, attached |-> att,
          err |-> [type |-> "duckdb.BinderException",
                   msg |-> <<"Cannot detach the default database">>]]
    ELSE [ok |-> TRUE, attached |-> {c \in att : c.alias # PgAlias},
          err |-> NoErr]

\* the engine on the attach query: the alias must be free and the server
\* must accept the connection; the connection error quotes the URL it was
\* given
EngineAttach(att, query, serverOk) ==
    LET url == SubSeq(query, 2, Len(query) - 1) IN
    IF HasAlias(att)
    THEN [ok |-> FALSE, attached |-> att, collided |-> TRUE,
          err |-> [type |-> "duckdb.BinderException",
                   msg |-> <<"database with name postgresdb already exists">>]]
    ELSE IF ~serverOk
    THEN [ok |-> FALSE, attached |-> att, collided |-> FALSE,
          err |-> [type |-> "duckdb.IOException",
                   msg |-> <<"Unable to connect to Postgres at ">> \o url
                           \o <<": connection refused">>]]
    ELSE [ok |-> TRUE, attached |-> att \cup {[alias |-> PgAlias, url |-> url]},
          collided |-> FALSE, err |-> NoErr]

\* install_extension / load_extension
EngineLoadExtension(extOk) ==
    IF extOk THEN NoErr
    ELSE [type |-> "duckdb.IOException",
          msg |-> <<"Failed to download extension postgres">>]

\* raise Exception(error_msg), lines 36-38 and 65-67
Wrapped(prefix, e) == [type |-> "Exception", msg |-> <<prefix>> \o e.msg]

NoLast ==
    [op |-> "none", password |-> "", url |-> <<>>, extOk |-> FALSE,
     serverOk |-> FALSE, preAttached |-> FALSE, preDefault |-> LocalDb,
     pre |-> {}, detachOk |-> FALSE, attachRan |-> FALSE, attachOk |-> FALSE,
     collided |-> FALSE, engineErr |-> NoErr, raised |-> NoErr,
     table |-> <<>>, name_as |-> <<>>, size |-> 0, n |-> 0]

\* lines 30-38: the extension step failed
ConstructExtFailed(att, def, p, e) ==
    LET w == Wrapped("Failed to install/load PostgreSQL extension: ", e) IN
    [attached |-> att,
     logged |-> {ParamsLogLine(p), w.msg},
     res |-> [NoLast EXCEPT !.op = "init", !.password = p.password,
                !.url = ConnectionUrl(p), !.preAttached = HasAlias(att),
                !.preDefault = def, !.pre = att, !.engineErr = e,
                !.raised = w]]

\* lines 58-67: the attach step on the catalogs att, after the detach step
\* logged detachLine
ConstructAttach(att0, att, def, p, serverOk, detachOk, detachLine) ==
    LET query == AttachQuery(ConnectionUrl(p))
        a     == EngineAttach(att, query, serverOk)
        w     == Wrapped("Failed to connect to PostgreSQL: ", a.err)
        lines == {ParamsLogLine(p),
                  <<"PostgreSQL extension installed and loaded successfully">>,
                  UrlLogLine(p), detachLine,
                  AttachLogLine(query, p.password)}
    IN  [attached |-> a.attached,
         logged |-> lines \cup (IF a.ok
                                THEN {<<"Successfully connected to PostgreSQL">>}
                                ELSE {w.msg}),
         res |-> [NoLast EXCEPT !.op = "init", !.password = p.password,
                    !.url = ConnectionUrl(p), !.extOk = TRUE,
                    !.serverOk = serverOk, !.preAttached = HasAlias(att0),
                    !.preDefault = def, !.pre = att0, !.detachOk = detachOk,
                    !.attachRan = TRUE, !.attachOk = a.ok,
                    !.collided = a.collided, !.engineErr = a.err,
                    !.raised = IF a.ok THEN NoErr ELSE w]]

\* a faulty variant: the detach step's error is not caught
ConstructDetachRaises(att, def, p, extOk, serverOk) ==
    LET e == EngineLoadExtension(extOk)
        d == EngineDetach(att, def)
    IN  IF e # NoErr THEN ConstructExtFailed(att, def, p, e)
        ELSE IF ~d.ok
        THEN [attached |-> att,
              logged |-> {ParamsLogLine(p), UrlLogLine(p)},
              res |-> [NoLast EXCEPT !.op = "init", !.password = p.password,
                         !.url = ConnectionUrl(p), !.extOk = TRUE,
                         !.serverOk = serverOk, !.preAttached = HasAlias(att),
                         !.preDefault = def, !.pre = att, !.engineErr = d.err,
                         !.raised = d.err]]
        ELSE ConstructAttach(att, d.attached, def, p, serverOk, TRUE,
                             <<"Detached existing postgresdb connection">>)

\* a faulty variant: no detach step before the attach step
ConstructNoDetach(att, def, p, extOk, serverOk) ==
    LET e == EngineLoadExtension(extOk)
    IN  IF e # NoErr THEN ConstructExtFailed(att, def, p, e)
        ELSE ConstructAttach(att, att, def, p, serverOk, FALSE,
                             <<"No existing postgresdb connection to detach">>)

\* a faulty variant: the detach step runs before the extension step
ConstructDetachFirst(att, def, p, extOk, serverOk) ==
    LET e == EngineLoadExtension(extOk)
        d == EngineDetach(att, def)
    IN  IF e # NoErr
        THEN [ConstructExtFailed(att, def, p, e) EXCEPT !.attached = d.attached]
        ELSE ConstructAttach(att, d.attached, def, p, serverOk, d.ok,
                 IF d.ok THEN <<"Detached existing postgresdb connection">>
                 ELSE <<"No existing postgresdb connection to detach">>)

\* PostgreSQLDataLoader.__init__, lines 24-67, on a connection with the
\* catalogs att and the default database def
Construct(att, def, p, extOk, serverOk) ==
    LET e == EngineLoadExtension(extOk)
        d == EngineDetach(att, def)
    IN  IF e # NoErr THEN ConstructExtFailed(att, def, p, e)
        ELSE ConstructAttach(att, d.attached, def, p, serverOk, d.ok,
                 IF d.ok THEN <<"Detached existing postgresdb connection">>
                 ELSE <<"No existing postgresdb connection to detach">>)

PgInit ==
    \E p \in ParamSets, extOk \in BOOLEAN, serverOk \in BOOLEAN :
        LET c == Construct(attached, defaultDb, p, extOk, serverOk) IN
        /\ attached' = c.attached
        /\ logged' = c.logged
        /\ last' = c.res
        /\ UNCHANGED <<defaultDb, mainTables>>
        /\ UNCHANGED <<mgrVars, raceVars>>

(***************************************************************************)
(* Names are sequences of pieces: a piece is a run of identifier           *)
(* characters or one other character.                                      *)
(***************************************************************************)
Unsafe == {".", "-", " "}
NoneName == <<>>        \* name_as omitted (None)

TableNames ==
    {<<PgAlias, ".", "public", ".", "orders">>,
     <<PgAlias, ".", "public", ".", "order", "-", "items">>}
NameAsValues == {NoneName, <<"orders">>}
LocalNames == {<<"orders">>, <<"order", "_", "items">>}
Absent == [present |-> FALSE, rows |-> {}]

\* table_name.split('.')[-1]
RECURSIVE LastSegment(_)
LastSegment(name) ==
    IF name = <<>> THEN <<>>
    ELSE IF name[Len(name)] = "." THEN <<>>
    ELSE Append(LastSegment(SubSeq(name, 1, Len(name) - 1)), name[Len(name)])

\* sanitize_table_name: every piece unsafe in an identifier becomes "_"
SanitizeTableName(name) ==
    [i \in 1..Len(name) |-> IF name[i] \in Unsafe THEN "_" ELSE name[i]]

\* lines 111-114
DestName(table_name, name_as) ==
    SanitizeTableName(IF name_as = NoneName THEN LastSegment(table_name)
                      ELSE name_as)

\* the n rows of a source table
SourceRows(table_name, n) == {<<table_name, i>> : i \in 1..n}

\* a faulty variant: the query without its LIMIT
IngestSelectNoLimit(table_name, n, size) == SourceRows(table_name, n)

\* SELECT * FROM {table_name} LIMIT {size}, lines 118-119, on a source of n
\* rows: the first rows of the scan, size of them at most
IngestSelect(table_name, n, size) ==
    {r \in SourceRows(table_name, n) : r[2] <= size}

\* a query on the foreign catalog: a catalog error when it is not attached;
\* main.<name> is a table of the local database only while that is the
\* default database
EngineCatalogError(att) ==
    IF HasAlias(att) THEN NoErr
    ELSE [type |-> "duckdb.CatalogException",
          msg |-> <<"Catalog postgresdb does not exist">>]

EngineMainError(def) ==
    IF def = LocalDb THEN NoErr
    ELSE [type |-> "duckdb.CatalogException",
          msg |-> <<"Schema main does not exist">>]

\* list_tables, lines 69-107
ListTables ==
    LET e == EngineCatalogError(attached) IN
    /\ last' = [NoLast EXCEPT !.op = "list_tables", !.engineErr = e,
                              !.raised = e]
    /\ logged' = {}
    /\ UNCHANGED <<attached, defaultDb, mainTables>>
    /\ UNCHANGED <<mgrVars, raceVars>>

\* ingest_data, lines 109-120
IngestData ==
    \E table_name \in TableNames, name_as \in NameAsValues,
       size \in 0..MaxSize, n \in 0..MaxRows :
        LET e1   == EngineCatalogError(attached)
            e    == IF e1 # NoErr THEN e1 ELSE EngineMainError(defaultDb)
            dest == DestName(table_name, name_as)
        IN  /\ last' = [NoLast EXCEPT !.op = "ingest_data", !.engineErr = e,
                          !.raised = e, !.table = table_name,
                          !.name_as = name_as, !.size = size, !.n = n]
            /\ logged' = {}
            /\ IF e = NoErr
               THEN mainTables' = [mainTables EXCEPT ![dest] =
                       [present |-> TRUE,
                        rows |-> IngestSelect(table_name, n, size)]]
               ELSE mainTables' = mainTables
            /\ UNCHANGED <<attached, defaultDb>>
            /\ UNCHANGED <<mgrVars, raceVars>>

\* the SQL strings given to view_query_sample
Queries ==
    {[kind |-> "select", arg |-> PgAlias], [kind |-> "use", arg |-> PgAlias],
     [kind |-> "use", arg |-> LocalDb]}

\* the engine on USE: the database must be attached
EngineUseError(att, db) ==
    IF db = LocalDb \/ HasAlias(att) THEN NoErr
    ELSE [type |-> "duckdb.CatalogException",
          msg |-> <<"No catalog with that name">>]

\* view_query_sample, lines 122-123: any SQL string is executed
ViewQuerySample ==
    \E q \in Queries :
        LET e == IF q.kind = "select" THEN EngineCatalogError(attached)
                 ELSE EngineUseError(attached, q.arg)
        IN  /\ last' = [NoLast EXCEPT !.op = "view_query_sample",
                          !.engineErr = e, !.raised = e]
            /\ defaultDb' = IF q.kind = "use" /\ e = NoErr THEN q.arg
                            ELSE defaultDb
            /\ logged' = {}
            /\ UNCHANGED <<attached, mainTables>>
            /\ UNCHANGED <<mgrVars, raceVars>>

\* ExternalDataLoader.ingest_df_to_duckdb: the frame becomes the local table
IngestDfToDuckdb(tables, rows, name) ==
    [tables EXCEPT ![name] = [present |-> TRUE, rows |-> rows]]

\* ingest_data_from_query, lines 125-129
IngestDataFromQuery ==
    \E table_name \in TableNames, name_as \in LocalNames, n \in 0..MaxRows :
        LET e1 == EngineCatalogError(attached)
            e  == IF e1 # NoErr THEN e1 ELSE EngineMainError(defaultDb)
        IN  /\ last' = [NoLast EXCEPT !.op = "ingest_data_from_query",
                          !.engineErr = e, !.raised = e, !.table = table_name,
                          !.name_as = name_as, !.n = n]
            /\ logged' = {}
            /\ mainTables' = IF e = NoErr
                             THEN IngestDfToDuckdb(mainTables,
                                      SourceRows(table_name, n), name_as)
                             ELSE mainTables
            /\ UNCHANGED <<attached, defaultDb>>
            /\ UNCHANGED <<mgrVars, raceVars>>

InitPg ==
    /\ attached = {}
    /\ defaultDb = LocalDb
    /\ mainTables = [name \in LocalNames |-> Absent]
    /\ logged = {}
    /\ last = NoLast
    /\ IdleMgr
    /\ IdleRace

NextPg ==
    \/ PgInit
    \/ ListTables
    \/ IngestData
    \/ ViewQuerySample
    \/ IngestDataFromQuery

SpecPg == InitPg /\ [][NextPg]_vars

(***************************************************************************)
(* Claims about PostgreSQLDataLoader, checked under SpecPg.                *)
(***************************************************************************)
Appears(password, line) ==
    password # "" /\ \E i \in 1..Len(line) : line[i] = password

MethodOps ==
    {"list_tables", "ingest_data", "view_query_sample", "ingest_data_from_query"}

\* C4: whatever the outcome of the constructor's steps, no string it passed
\* to the logger holds the password.
C4_PasswordNeverLogged ==
    last.op = "init" => \A line \in logged : ~Appears(last.password, line)

\* C5: the constructor raises exactly when the extension step or the attach
\* step failed, and then raises Exception with the step's descriptive
\* message before the engine's; a failed DETACH is not raised and the attach
\* step still runs; the other methods raise the engine's exception as it is.
C5_FailureSemantics ==
    /\ last.op = "init" =>
          /\ (last.raised # NoErr)
                <=> (~last.extOk \/ (last.attachRan /\ ~last.attachOk))
          /\ ~last.extOk =>
                last.raised =
                   [type |-> "Exception",
                    msg |-> <<"Failed to install/load PostgreSQL extension: ">>
                            \o last.engineErr.msg]
          /\ (last.extOk /\ last.raised # NoErr) =>
                last.raised =
                   [type |-> "Exception",
                    msg |-> <<"Failed to connect to PostgreSQL: ">>
                            \o last.engineErr.msg]
          /\ last.extOk => last.attachRan
    /\ last.op \in MethodOps => last.raised = last.engineErr

\* a construction whose DETACH failed, whose ATTACH ran and failed, and
\* which raised the wrapped exception
C5_Witness ==
    /\ last.op = "init"
    /\ last.extOk /\ ~last.detachOk /\ last.attachRan /\ ~last.attachOk
    /\ last.raised.type = "Exception"

C7_IngestRows ==
    (last.op = "ingest_data" /\ last.raised = NoErr) =>
        LET dest == SanitizeTableName(
                        IF last.name_as = NoneName
                        THEN LastSegment(last.table) ELSE last.name_as)
            t    == mainTables[dest]
        IN  /\ dest \in LocalNames
            /\ t.present
            /\ Cardinality(t.rows) = Min(last.size, last.n)
            /\ t.rows \subseteq SourceRows(last.table, last.n)

\* size 1 on a source of 2 rows, name_as omitted: one row under order_items
C7_Witness ==
    /\ last.op = "ingest_data" /\ last.raised = NoErr
    /\ last.name_as = NoneName
    /\ last.table = <<PgAlias, ".", "public", ".", "order", "-", "items">>
    /\ last.size = 1 /\ last.n = 2
    /\ Cardinality(mainTables[<<"order", "_", "items">>].rows) = 1

====
